---- MODULE Spec2Model ----
(***************************************************************************)
(* A model of the exporter of solana-mission-control                       *)
(* (src/exporter/exporter.go): the prometheus collector's Collect cycle,   *)
(* the epoch-info cache behind getCachedEpochInfo, the metric computation  *)
(* of mustEmitMetrics and the status-alert scheduler AlertValidatorStatus. *)
(*                                                                         *)
(* Every Collect call runs in a goroutine of its own.  The collector holds *)
(* no lock, so the goroutines of overlapping scrapes interleave at every   *)
(* access of the two cache fields.  Time is a clock in seconds that        *)
(* advances only while every goroutine is idle or blocked (in a network    *)
(* call, or on the unbuffered metric channel): straight-line code takes no *)
(* time.                                                                   *)
(***************************************************************************)
EXTENDS Integers, Sequences, FiniteSets, TLC

(* ------------------------------ bounds -------------------------------- *)

\* The clock advances in steps of Quantum seconds, up to MaxNow.
Quantum == 15
MaxNow == 60
\* Collect calls started in one behaviour.
MaxCycles == 2
\* The chain's epoch runs from 1 to MaxEpoch.
MaxEpoch == 2

\* The epochCredits of an account hold up to MaxCredits tuples.
MaxCredits == 3

\* Block times run up to MaxGiga * 10^9 seconds after the Unix epoch.
MaxGiga == 10

(* ------------------------- program constants -------------------------- *)

\* "Cache for 30 seconds": 30*time.Second.
TTL == 30
\* The zero time.Time of a collector that never stored a fetch time.
ZeroTime == -1

\* time.Second in nanoseconds; a number of seconds is held as hi * 10^9 + lo.
Second == 1000000000

\* The goroutines that run Collect.
Procs == {1, 2}

\* c.config.ValDetails.PubKey: the tracked validator's node identity.
PubKey == "val"

\* A nil *types.EpochInfo.  got and by are history: when the upstream query
\* that produced the value succeeded, and the goroutine that issued it.
NilInfo == [nil |-> TRUE, epoch |-> 0, got |-> 0, by |-> 0]

EpochInfo(e, t, p) == [nil |-> FALSE, epoch |-> e, got |-> t, by |-> p]

(* -------------------- time.Kitchen: "3:04PM" -------------------------- *)

\* A time-of-day string is modelled by its three fields <<hour, minute,
\* suffix>>; a string that is no time of day has a field out of range.

\* t.Format(time.Kitchen) of the time of day h24:m.
FormatKitchen(h24, m) ==
    <<IF h24 % 12 = 0 THEN 12 ELSE h24 % 12, m, IF h24 >= 12 THEN "PM" ELSE "AM">>

\* time.Parse(time.Kitchen, value): the hour may be 0..12, "PM" adds 12 to
\* an hour below 12 and "AM" turns 12 into 0.  On an error the result is the
\* zero Time, whose time of day is 0:00.
ParseKitchen(value) ==
    IF value[1] \in 0..12 /\ value[2] \in 0..59 /\ value[3] \in {"AM", "PM"}
    THEN [err |-> FALSE,
          h24 |-> IF value[3] = "PM" /\ value[1] < 12 THEN value[1] + 12
                  ELSE IF value[3] = "AM" /\ value[1] = 12 THEN 0
                  ELSE value[1],
          m   |-> value[2]]
    ELSE [err |-> TRUE, h24 |-> 0, m |-> 0]

\* now.Format(time.Kitchen) for the clock value t, in seconds since midnight UTC.
KitchenOf(t) == FormatKitchen((t \div 3600) % 24, (t \div 60) % 60)

\* alertsArray: every configured value parsed (the error dropped) and
\* formatted again.
AlertsArray(timings) ==
    [i \in 1..Len(timings) |->
        LET t == ParseKitchen(timings[i]) IN FormatKitchen(t.h24, t.m)]

(* ---------------------------- the gateway ----------------------------- *)

\* One vote account of a getVoteAccounts response.
Account(node, vote, stake, lastVote, evAccount, credits) ==
    [NodePubkey |-> node, VotePubkey |-> vote, ActivatedStake |-> stake,
     LastVote |-> lastVote, RootSlot |-> lastVote - 1, Commission |-> 10,
     EpochVoteAccount |-> evAccount, EpochCredits |-> credits]

Tracked == Account(PubKey, "vk", 2000000000, 7, TRUE, <<<<1, 60, 50>>, <<2, 70, 60>>>>)

Other == Account("o1", "v1", 1000000000, 9, TRUE, <<<<1, 40, 30>>, <<2, 0, 40>>>>)

Unstaked == Account(PubKey, "vk", 0, 7, FALSE, <<<<1, 60, 50>>>>)

\* The zero types.GetVoteAccountsResponse.
NoAccounts == [Current |-> <<>>, Delinquent |-> <<>>]

\* The snapshots monitor.GetVoteAccounts may answer with.
VoteAccountsResults ==
    { [Current |-> <<Tracked, Other>>, Delinquent |-> <<>>],
      [Current |-> <<Other>>, Delinquent |-> <<Tracked>>],
      [Current |-> <<Unstaked>>, Delinquent |-> <<>>] }

\* What a gateway call returns: a result, or the zero response with an error.
Returns(results, zero) ==
    {[err |-> FALSE, result |-> r] : r \in results} \cup {[err |-> TRUE, result |-> zero]}

\* The last vote of the tracked validator in the answer of
\* monitor.GetVoteAccounts(c.config, utils.Network): the slot the validator's
\* own endpoint reports, or a later one.
NetworkVotes == {7, 9}

\* querier.AlertStatusCountFromPrometheus: "true", "false", another string,
\* or an error with the empty string.
DedupAnswers ==
    {[err |-> FALSE, s |-> "true"], [err |-> FALSE, s |-> "false"],
     [err |-> FALSE, s |-> "other"], [err |-> TRUE, s |-> ""]}

\* The alert_timings of the configuration file: two slots; a slot given
\* twice; "0:01AM" (which is 12:01AM) and a value that is no time of day.
AlertConfigs ==
    { <<<<12, 0, "AM">>, <<12, 1, "AM">>>>,
      <<<<12, 0, "AM">>, <<12, 0, "AM">>>>,
      <<<<0, 1, "AM">>, <<13, 0, "XM">>>> }

\* The alerters of a dispatch, in the order they are called.
Channels == <<"telegram", "email", "slack">>

\* alerter.SendTelegramAlert, SendEmailAlert and SendSlackAlert: each returns
\* an error (TRUE) or nil.
SendErrors == [{"telegram", "email", "slack"} -> BOOLEAN]

NoErrors == [c \in {"telegram", "email", "slack"} |-> FALSE]

(* ------------------------------ metrics ------------------------------- *)

\* prometheus.MustNewConstMetric(desc, GaugeValue, value, label).
Metric(desc, value, label) == [desc |-> desc, invalid |-> FALSE, value |-> value, label |-> label]

\* prometheus.NewInvalidMetric(desc, err).
InvalidMetric(desc) == [desc |-> desc, invalid |-> TRUE, value |-> 0, label |-> ""]

\* A float64: an integer, or a quotient; x/0 is NaN (0/0) or +Inf.
Float(n) == [kind |-> "num", num |-> n, den |-> 1]

FloatDiv(a, b) ==
    IF b = 0 THEN [kind |-> IF a = 0 THEN "NaN" ELSE "Inf", num |-> 0, den |-> 0]
    ELSE [kind |-> "num", num |-> a, den |-> b]

(* ------------------------------- state -------------------------------- *)

VARIABLES
    \* solanaCollector: the cache fields.
    cachedEpochInfo, cachedEpochTime,
    \* The environment: the clock, the chain's epoch, the vote-account snapshots
    \* the validator's RPC endpoint may answer with, config.RegularStatusAlerts,
    \* and what the three alerter calls of a dispatch may return.
    now, chainEpoch, snapshots, alertTimings, alerterErrors,
    \* The last vote of the tracked validator as the network's RPC endpoint
    \* (utils.Network) reports it.
    networkVote,
    \* Each Collect goroutine: where it is, and its locals.
    pc, accs, idx, caller, ret, pending, fetched, loc, out, sends, logged,
    \* History: the goroutine whose fetch time is cached, the times of the
    \* GetEpochInfo queries of the last TTL seconds, and per goroutine the epochs
    \* its credit computations used, the gateway queries it issued, its last
    \* AlertValidatorStatus evaluation; the Collect calls started so far.
    timeBy, recentQueries, epochsUsed, issued, lastAlert, cycles,
    \* The credits calcualteEpochVoteCredits returned for the current accounts
    \* of the cycle so far, in their order.
    credited,
    \* The goroutines whose output is observed: out, sends, logged, lastAlert
    \* and answer record the metrics sent to ch, the alerter calls, the log
    \* lines of failed alerter calls and what the gateway returned to Collect,
    \* of these goroutines only.
    answer, observed,
    \* A call of one of the functions that read no state of the collector: its
    \* arguments and, once it has returned, its result.
    call

cacheVars == <<cachedEpochInfo, cachedEpochTime, timeBy>>
envVars == <<now, chainEpoch, snapshots, alertTimings, alerterErrors, networkVote>>
procVars == <<pc, accs, idx, caller, ret, pending, fetched, loc, out, sends, logged>>
histVars == <<recentQueries, epochsUsed, issued, lastAlert, cycles, answer, observed, credited>>
vars == <<cacheVars, envVars, procVars, histVars, call>>

\* The locals of mustEmitMetrics at its entry.
NoLocals ==
    [netresult |-> 0, runningCurrentCredits |-> 0, runningPreviousCredits |-> 0,
     currentCreditsCount |-> 0, previousCreditsCount |-> 0, cCredits |-> 0, pCredits |-> 0]

NoReturn == [val |-> NilInfo, err |-> FALSE]

\* What the gateway returned to the calls of one Collect: nothing yet.
Unanswered(zero) == [answered |-> FALSE, err |-> FALSE, result |-> zero]

Answered(r) == [answered |-> TRUE, err |-> r.err, result |-> r.result]

NoAnswers ==
    [GetVoteAccounts |-> Unanswered(NoAccounts), GetVersion |-> Unanswered(""),
     GetSlotLeader |-> Unanswered(""), GetCurrentSlot |-> Unanswered(0),
     GetTxCount |-> Unanswered(0)]

NoAlert == [evaluated |-> FALSE, cur |-> <<0, 0, "">>, msg |-> "", answers |-> <<>>,
            sends |-> <<>>, logs |-> <<>>, emits |-> <<>>]

\* No function is being called.
NoCall == [fn |-> "", args |-> <<>>, returned |-> FALSE, result |-> <<>>]

\* NewSolanaCollector: the cache fields are left at their zero values.
InitWith(configs, results, votes, failures, watched, calls) ==
    /\ alerterErrors = failures
    /\ observed = watched
    /\ snapshots = results
    /\ networkVote \in votes
    /\ credited = [p \in Procs |-> <<>>]
    /\ call \in calls
    /\ cachedEpochInfo = NilInfo
    /\ cachedEpochTime = ZeroTime
    /\ timeBy = 0
    /\ now = 0
    /\ chainEpoch = 1
    /\ alertTimings \in configs
    /\ pc = [p \in Procs |-> "idle"]
    /\ accs = [p \in Procs |-> NoAccounts]
    /\ idx = [p \in Procs |-> 0]
    /\ caller = [p \in Procs |-> ""]
    /\ ret = [p \in Procs |-> NoReturn]
    /\ pending = [p \in Procs |-> {}]
    /\ fetched = [p \in Procs |-> NilInfo]
    /\ loc = [p \in Procs |-> NoLocals]
    /\ out = [p \in Procs |-> <<>>]
    /\ sends = [p \in Procs |-> <<>>]
    /\ logged = [p \in Procs |-> <<>>]
    /\ recentQueries = <<>>
    /\ epochsUsed = [p \in Procs |-> {}]
    /\ issued = [p \in Procs |-> <<>>]
    /\ lastAlert = [p \in Procs |-> NoAlert]
    /\ answer = [p \in Procs |-> NoAnswers]
    /\ cycles = 0

(* ------------------------- getCachedEpochInfo ------------------------- *)

\* time.Since(t); the time since the zero Time is the largest Duration.
Since(t) == IF t = ZeroTime THEN TTL + now + 1 ELSE now - t

\* c.cachedEpochInfo != nil && time.Since(c.cachedEpochTime) < 30*time.Second
CacheFresh == ~cachedEpochInfo.nil /\ Since(cachedEpochTime) < TTL

\* The cached value is fresh: return c.cachedEpochInfo, nil.
CacheHit(p) ==
    /\ pc[p] = "lookup"
    /\ CacheFresh
    /\ ret' = [ret EXCEPT ![p] = [val |-> cachedEpochInfo, err |-> FALSE]]
    /\ pc' = [pc EXCEPT ![p] = "returned"]
    /\ UNCHANGED <<call, cacheVars, envVars, accs, idx, caller, pending, fetched, loc, out, sends, logged, histVars>>

\* Otherwise monitor.GetEpochInfo(c.config, utils.Validator) is called.
CacheMiss(p) ==
    /\ pc[p] = "lookup"
    /\ ~CacheFresh
    /\ pc' = [pc EXCEPT ![p] = "GetEpochInfo"]
    /\ recentQueries' = Append(recentQueries, now)
    /\ UNCHANGED <<call, cacheVars, envVars, accs, idx, caller, ret, pending, fetched, loc, out, sends, logged,
                   epochsUsed, issued, lastAlert, cycles, credited, answer, observed>>

\* EpochInfoFail with the stale cached value returned beside the error.
EpochInfoFail_ServeStale(p) ==
    /\ pc[p] = "GetEpochInfo"
    /\ ret' = [ret EXCEPT ![p] = [val |-> cachedEpochInfo, err |-> TRUE]]
    /\ pc' = [pc EXCEPT ![p] = "returned"]
    /\ UNCHANGED <<call, cacheVars, envVars, accs, idx, caller, pending, fetched, loc, out, sends, logged, histVars>>

\* The query fails: return nil, err.
EpochInfoFail(p) ==
    /\ pc[p] = "GetEpochInfo"
    /\ ret' = [ret EXCEPT ![p] = [val |-> NilInfo, err |-> TRUE]]
    /\ pc' = [pc EXCEPT ![p] = "returned"]
    /\ UNCHANGED <<call, cacheVars, envVars, accs, idx, caller, pending, fetched, loc, out, sends, logged, histVars>>

\* The query answers with the chain's epoch; the two cache fields are still
\* to be stored.
EpochInfoOk(p) ==
    /\ pc[p] = "GetEpochInfo"
    /\ fetched' = [fetched EXCEPT ![p] = EpochInfo(chainEpoch, now, p)]
    /\ pending' = [pending EXCEPT ![p] = {"cachedEpochInfo", "cachedEpochTime"}]
    /\ pc' = [pc EXCEPT ![p] = "store"]
    /\ UNCHANGED <<call, cacheVars, envVars, accs, idx, caller, ret, loc, out, sends, logged, histVars>>

\* After a store, return &epochInfo, nil once both fields are stored.
Stored(p, field) ==
    /\ pending' = [pending EXCEPT ![p] = @ \ {field}]
    /\ IF pending[p] = {field}
       THEN /\ ret' = [ret EXCEPT ![p] = [val |-> fetched[p], err |-> FALSE]]
            /\ fetched' = [fetched EXCEPT ![p] = NilInfo]
            /\ pc' = [pc EXCEPT ![p] = "returned"]
       ELSE UNCHANGED <<ret, fetched, pc>>

\* c.cachedEpochInfo = &epochInfo.  No lock orders the two stores for the
\* reads of another goroutine, which may observe them in either order.
StoreInfo(p) ==
    /\ pc[p] = "store"
    /\ "cachedEpochInfo" \in pending[p]
    /\ cachedEpochInfo' = fetched[p]
    /\ Stored(p, "cachedEpochInfo")
    /\ UNCHANGED <<call, cachedEpochTime, timeBy, envVars, accs, idx, caller, loc, out, sends, logged, histVars>>

\* c.cachedEpochTime = time.Now()
StoreTime(p) ==
    /\ pc[p] = "store"
    /\ "cachedEpochTime" \in pending[p]
    /\ cachedEpochTime' = now
    /\ timeBy' = p
    /\ Stored(p, "cachedEpochTime")
    /\ UNCHANGED <<call, cachedEpochInfo, envVars, accs, idx, caller, loc, out, sends, logged, histVars>>

\* ch <- the metrics ms, as far as goroutine p is observed.
Emit(p, ms) == out' = [out EXCEPT ![p] = IF p \in observed THEN @ \o ms ELSE @]

\* The gateway returns r to goroutine p's call of query.
Answer(p, query, r) ==
    answer' = [answer EXCEPT ![p][query] = IF p \in observed THEN Answered(r) ELSE @]

\* The alerter calls as of goroutine p, likewise.
Send(p, calls) == sends' = [sends EXCEPT ![p] = IF p \in observed THEN @ \o calls ELSE @]

\* The log.Printf lines of failed alerter calls, likewise.
Log(p, lines) == logged' = [logged EXCEPT ![p] = IF p \in observed THEN @ \o lines ELSE @]

(* ------------------------ AlertValidatorStatus ------------------------ *)

\* The three alerter calls of one dispatch, in the order of the code.
Dispatch(msg) ==
    <<[channel |-> "telegram", msg |-> msg], [channel |-> "email", msg |-> msg],
      [channel |-> "slack", msg |-> msg]>>

\* The errors of a dispatch that are logged: the channels whose call failed.
Logged(errs) == SelectSeq(Channels, LAMBDA c : errs[c])

\* A dispatch that gives up at the first alerter call that fails.
Attempt_StopAtError(msg, errs) ==
    LET failed == {k \in 1..3 : errs[Channels[k]]}
        last == IF failed = {} THEN 3 ELSE CHOOSE k \in failed : \A j \in failed : k <= j
    IN  [sends |-> SubSeq(Dispatch(msg), 1, last),
         logs |-> SubSeq(Logged(errs), 1, IF failed = {} THEN 0 ELSE 1)]

\* One dispatch whose alerter calls return errs: the calls made and the
\* lines logged.
Attempt(msg, errs) == [sends |-> Dispatch(msg), logs |-> Logged(errs)]

\* The loop over alertsArray from its i-th element on.  st holds count, the
\* answers of the dedup queries made so far, the alerter calls and the
\* metrics emitted; answers[k] is what the k-th dedup query returns and
\* outcomes[k] what the alerter calls after it return.
RECURSIVE AlertLoop(_, _, _, _, _, _, _)
AlertLoop(alertsArray, i, currentTime, msg, answers, outcomes, st) ==
    IF i > Len(alertsArray) THEN st
    ELSE IF currentTime = alertsArray[i]
    THEN LET alreadySentAlert == answers[Len(st.answers) + 1]
             asked == Append(st.answers, alreadySentAlert)
             sent == Attempt(msg, outcomes[Len(st.answers) + 1])
         IN  IF alreadySentAlert.s = "false"
             THEN AlertLoop(alertsArray, i + 1, currentTime, msg, answers, outcomes,
                     [count |-> st.count + 1,
                      answers |-> asked,
                      sends |-> st.sends \o sent.sends,
                      logs |-> st.logs \o sent.logs,
                      emits |-> Append(st.emits,
                                  Metric("statusAlertCount", Float(st.count), "true"))])
             ELSE [st EXCEPT !.answers = asked,
                             !.emits = Append(st.emits,
                                  Metric("statusAlertCount", Float(st.count), "false"))]
    ELSE AlertLoop(alertsArray, i + 1, currentTime, msg, answers, outcomes, st)

\* AlertValidatorStatus with a counter that goes on from the evaluations of
\* the earlier cycles.
AlertValidatorStatus_Counting(timings, t, msg, answers, outcomes) ==
    LET st == AlertLoop(AlertsArray(timings), 1, KitchenOf(t), msg, answers, outcomes,
                        [count |-> cycles - 1, answers |-> <<>>, sends |-> <<>>,
                         logs |-> <<>>, emits |-> <<>>])
    IN  [evaluated |-> TRUE, cur |-> KitchenOf(t), msg |-> msg, answers |-> st.answers,
         sends |-> st.sends, logs |-> st.logs, emits |-> st.emits]

\* AlertValidatorStatus(msg, ch) at clock value t.
AlertValidatorStatus(timings, t, msg, answers, outcomes) ==
    LET st == AlertLoop(AlertsArray(timings), 1, KitchenOf(t), msg, answers, outcomes,
                        [count |-> 0, answers |-> <<>>, sends |-> <<>>, logs |-> <<>>,
                         emits |-> <<>>])
    IN  [evaluated |-> TRUE, cur |-> KitchenOf(t), msg |-> msg, answers |-> st.answers,
         sends |-> st.sends, logs |-> st.logs, emits |-> st.emits]

(* --------------------------- mustEmitMetrics -------------------------- *)

\* validatorLastVote and validatorRootSlot of every account of the tracked
\* validator.
RECURSIVE LastVoteMetrics(_)
LastVoteMetrics(accounts) ==
    IF accounts = <<>> THEN <<>>
    ELSE (IF Head(accounts).NodePubkey = PubKey
          THEN <<Metric("validatorLastVote", Float(Head(accounts).LastVote), Head(accounts).VotePubkey),
                 Metric("validatorRootSlot", Float(Head(accounts).RootSlot), Head(accounts).VotePubkey)>>
          ELSE <<>>) \o LastVoteMetrics(Tail(accounts))

\* netresult: the last vote of the first current account of the tracked
\* validator, 0 when there is none.
RECURSIVE NetResult(_)
NetResult(current) ==
    IF current = <<>> THEN 0
    ELSE IF Head(current).NodePubkey = PubKey THEN Head(current).LastVote
    ELSE NetResult(Tail(current))

\* EpochVoteCredits with the last tuple of the epoch taken, not the first.
RECURSIVE EpochVoteCredits_LastMatch(_, _)
EpochVoteCredits_LastMatch(credits, epoch) ==
    IF credits = <<>> THEN <<0, 0>>
    ELSE LET last == credits[Len(credits)]
         IN  IF Len(last) >= 3 /\ last[1] = epoch THEN <<last[2], last[3]>>
             ELSE EpochVoteCredits_LastMatch(SubSeq(credits, 1, Len(credits) - 1), epoch)

\* The loop of calcualteEpochVoteCredits: the credits of the first tuple of
\* at least three elements whose epoch is the given one, <<0, 0>> without one.
RECURSIVE EpochVoteCredits(_, _)
EpochVoteCredits(credits, epoch) ==
    IF credits = <<>> THEN <<0, 0>>
    ELSE IF Len(Head(credits)) >= 3 /\ Head(credits)[1] = epoch
    THEN <<Head(credits)[2], Head(credits)[3]>>
    ELSE EpochVoteCredits(Tail(credits), epoch)

\* The alerter calls, log lines and metrics of the loop over the delinquent
\* accounts; outcomes[k] is what the alerter calls for the k-th account return.
RECURSIVE DelinquentLoop(_, _)
DelinquentLoop(delinquent, outcomes) ==
    IF delinquent = <<>> THEN [sends |-> <<>>, logs |-> <<>>, emits |-> <<>>]
    ELSE LET vote == Head(delinquent)
             rest == DelinquentLoop(Tail(delinquent), Tail(outcomes))
             sent == Attempt("DELINQUENT", Head(outcomes))
         IN  IF vote.NodePubkey = PubKey
             THEN [sends |-> sent.sends \o rest.sends,
                   logs |-> sent.logs \o rest.logs,
                   emits |-> <<Metric("delinqentCommission", Float(vote.Commission),
                                      ToString(vote.Commission)),
                               Metric("validatorDelinquent", Float(1), vote.VotePubkey)>>
                             \o rest.emits]
             ELSE rest

\* The loop over response.Result.Current reaches its i-th account, or ends.
LoopAt(p, i) ==
    IF i <= Len(accs[p].Current)
    THEN /\ idx' = [idx EXCEPT ![p] = i]
         /\ caller' = [caller EXCEPT ![p] = "calcualteEpochVoteCredits"]
         /\ pc' = [pc EXCEPT ![p] = "lookup"]
    ELSE /\ idx' = [idx EXCEPT ![p] = 0]
         /\ caller' = [caller EXCEPT ![p] = ""]
         /\ pc' = [pc EXCEPT ![p] = "emitNetwork"]

\* From the return of the first getCachedEpochInfo (its value dropped, its
\* error logged) to the loop over the current accounts.
EpochLookedUp(p) ==
    /\ pc[p] = "returned"
    /\ caller[p] = "mustEmitMetrics"
    /\ loc' = [loc EXCEPT ![p] = [NoLocals EXCEPT !.netresult = NetResult(accs[p].Current)]]
    /\ ret' = [ret EXCEPT ![p] = NoReturn]
    /\ LoopAt(p, 1)
    /\ UNCHANGED <<call, cacheVars, envVars, accs, pending, fetched, out, sends, logged, histVars>>

\* calcualteEpochVoteCredits reads the epoch of a nil epochInfo: the panic
\* of one goroutine ends the process, and with it every goroutine.
NilDereference(p) ==
    /\ pc[p] = "returned"
    /\ caller[p] = "calcualteEpochVoteCredits"
    /\ ret[p].val.nil
    /\ pc' = [q \in Procs |-> "panic"]
    /\ UNCHANGED <<call, cacheVars, envVars, accs, idx, caller, ret, pending, fetched, loc, out, sends, logged, histVars>>

\* Counted with an account counting as soon as one of its credits is nonzero.
Counted_Either(cCredits, pCredits) == cCredits # 0 \/ pCredits # 0

\* if cCredits != 0 && pCredits != 0: the account counts for the averages.
Counted(cCredits, pCredits) == cCredits # 0 /\ pCredits # 0

\* calcualteEpochVoteCredits returns and the credits are added to the
\* running sums; the tracked validator's metrics come next.
CreditsComputed(p) ==
    /\ pc[p] = "returned"
    /\ caller[p] = "calcualteEpochVoteCredits"
    /\ ~ret[p].val.nil
    /\ LET vote == accs[p].Current[idx[p]]
           credits == EpochVoteCredits(vote.EpochCredits, ret[p].val.epoch)
           counted == Counted(credits[1], credits[2])
       IN  /\ epochsUsed' = [epochsUsed EXCEPT ![p] = @ \cup {ret[p].val.epoch}]
           /\ credited' = [credited EXCEPT ![p] = IF p \in observed THEN Append(@, credits) ELSE @]
           /\ loc' = [loc EXCEPT
                 ![p].cCredits = credits[1],
                 ![p].pCredits = credits[2],
                 ![p].runningCurrentCredits = IF counted THEN @ + credits[1] ELSE @,
                 ![p].runningPreviousCredits = IF counted THEN @ + credits[2] ELSE @,
                 ![p].currentCreditsCount = IF counted THEN @ + 1 ELSE @,
                 ![p].previousCreditsCount = IF counted THEN @ + 1 ELSE @]
           /\ IF vote.NodePubkey = PubKey
              THEN /\ pc' = [pc EXCEPT ![p] = "emitTracked"]
                   /\ UNCHANGED <<idx, caller>>
              ELSE LoopAt(p, idx[p] + 1)
    /\ ret' = [ret EXCEPT ![p] = NoReturn]
    /\ UNCHANGED <<call, cacheVars, envVars, accs, pending, fetched, out, sends, logged,
                   recentQueries, issued, lastAlert, cycles, answer, observed>>

\* Stake without the division: the activated stake in its native unit.
Stake_Native(vote) == Float(vote.ActivatedStake)

\* stake := float64(vote.ActivatedStake) / math.Pow(10, 9)
Stake(vote) == FloatDiv(vote.ActivatedStake, 1000000000)

\* NotVoting with one of the two conditions being enough.
NotVoting_Either(vote) == ~vote.EpochVoteAccount \/ vote.ActivatedStake <= 0

\* if !vote.EpochVoteAccount && vote.ActivatedStake <= 0
NotVoting(vote) == ~vote.EpochVoteAccount /\ vote.ActivatedStake <= 0

\* The metrics of the tracked validator found among the current accounts,
\* with its status alert.
TrackedMetrics(vote, l, alert) ==
    LET voting == ~NotVoting(vote)
    IN  <<Metric("validatorVote", Float(IF vote.EpochVoteAccount THEN 1 ELSE 0), "current"),
          Metric("commission", Float(vote.Commission), ToString(vote.Commission)),
          Metric("validatorDelinquent", Float(0), vote.VotePubkey),
          Metric("validatorActivatedStake", Stake(vote), vote.VotePubkey)>>
        \o alert.emits
        \o <<Metric("valVotingStatus", Float(IF voting THEN 1 ELSE 0),
                    IF voting THEN "Voting" ELSE "Jailed"),
             Metric("valVoteHeight", Float(vote.LastVote), "validator"),
             Metric("netVoteHeight", Float(l.netresult), "network"),
             Metric("voteHeightDiff", Float(l.netresult - vote.LastVote), "vote height difference"),
             Metric("voteCredits", Float(l.cCredits), "current"),
             Metric("voteCredits", Float(l.pCredits), "previous")>>

StatusMessage(vote) ==
    IF NotVoting(vote)
    THEN "Solana validator is NOT VOTING"
    ELSE "Solana validator is VOTING"

TrackedEmitted(p) ==
    /\ pc[p] = "emitTracked"
    /\ \E answers \in [1..Len(alertTimings) -> DedupAnswers],
          outcomes \in [1..Len(alertTimings) -> alerterErrors] :
          LET vote == accs[p].Current[idx[p]]
              alert == AlertValidatorStatus(alertTimings, now, StatusMessage(vote),
                                            answers, outcomes)
          IN  /\ lastAlert' = [lastAlert EXCEPT ![p] = IF p \in observed THEN alert ELSE @]
              /\ Send(p, alert.sends)
              /\ Log(p, alert.logs)
              /\ Emit(p, TrackedMetrics(vote, loc[p], alert))
    /\ LoopAt(p, idx[p] + 1)
    /\ UNCHANGED <<call, cacheVars, envVars, accs, ret, pending, fetched, loc,
                   recentQueries, epochsUsed, issued, cycles, credited, answer, observed>>

\* After the loop: the network's average credits, the delinquent accounts,
\* and back in Collect the call of monitor.GetVersion.
NetworkEmitted(p) ==
    /\ pc[p] = "emitNetwork"
    /\ \E outcomes \in [1..Len(accs[p].Delinquent) -> alerterErrors] :
       LET l == loc[p]
           d == DelinquentLoop(accs[p].Delinquent, outcomes)
       IN  /\ Emit(p,
                 <<Metric("networkVoteCredits",
                          FloatDiv(l.runningCurrentCredits, l.currentCreditsCount), "current"),
                   Metric("networkVoteCredits",
                          FloatDiv(l.runningPreviousCredits, l.previousCreditsCount), "previous")>>
                 \o d.emits)
           /\ Send(p, d.sends)
           /\ Log(p, d.logs)
    /\ loc' = [loc EXCEPT ![p] = NoLocals]
    /\ pc' = [pc EXCEPT ![p] = "GetVersion"]
    /\ issued' = [issued EXCEPT ![p] = Append(@, "GetVersion")]
    /\ UNCHANGED <<call, cacheVars, envVars, accs, idx, caller, ret, pending, fetched,
                   recentQueries, epochsUsed, lastAlert, cycles, credited, answer, observed>>

(* ------------------------------ Collect ------------------------------- *)

\* A scrape calls Collect, which calls monitor.GetVoteAccounts.
StartCollect(p) ==
    /\ pc[p] = "idle"
    /\ cycles < MaxCycles
    /\ cycles' = cycles + 1
    /\ pc' = [pc EXCEPT ![p] = "GetVoteAccounts"]
    /\ issued' = [issued EXCEPT ![p] = <<"GetVoteAccounts">>]
    /\ accs' = [accs EXCEPT ![p] = NoAccounts]
    /\ loc' = [loc EXCEPT ![p] = NoLocals]
    /\ ret' = [ret EXCEPT ![p] = NoReturn]
    /\ out' = [out EXCEPT ![p] = <<>>]
    /\ sends' = [sends EXCEPT ![p] = <<>>]
    /\ logged' = [logged EXCEPT ![p] = <<>>]
    /\ epochsUsed' = [epochsUsed EXCEPT ![p] = {}]
    /\ lastAlert' = [lastAlert EXCEPT ![p] = NoAlert]
    /\ answer' = [answer EXCEPT ![p] = NoAnswers]
    /\ credited' = [credited EXCEPT ![p] = <<>>]
    /\ UNCHANGED <<call, cacheVars, envVars, idx, caller, pending, fetched, recentQueries, observed>>

\* The metrics Collect emits when GetVoteAccounts fails.
VoteAccountsUnavailable ==
    <<InvalidMetric("totalValidatorsDesc"), InvalidMetric("validatorActivatedStake"),
      InvalidMetric("validatorLastVote"), InvalidMetric("validatorRootSlot"),
      InvalidMetric("validatorDelinquent")>>

\* VoteAccountsFail with a return after the five invalid metrics.
VoteAccountsFail_Return(p) ==
    /\ pc[p] = "GetVoteAccounts"
    /\ Answer(p, "GetVoteAccounts", [err |-> TRUE, result |-> NoAccounts])
    /\ Emit(p, VoteAccountsUnavailable)
    /\ pc' = [pc EXCEPT ![p] = "idle"]
    /\ UNCHANGED <<call, cacheVars, envVars, accs, idx, caller, ret, pending, fetched, loc, sends, logged,
                   recentQueries, epochsUsed, issued, lastAlert, cycles, credited, observed>>

\* GetVoteAccounts fails: the five invalid metrics, then monitor.GetVersion.
VoteAccountsFail(p) ==
    /\ pc[p] = "GetVoteAccounts"
    /\ Answer(p, "GetVoteAccounts", [err |-> TRUE, result |-> NoAccounts])
    /\ Emit(p, VoteAccountsUnavailable)
    /\ pc' = [pc EXCEPT ![p] = "GetVersion"]
    /\ issued' = [issued EXCEPT ![p] = Append(@, "GetVersion")]
    /\ UNCHANGED <<call, cacheVars, envVars, accs, idx, caller, ret, pending, fetched, loc, sends, logged,
                   recentQueries, epochsUsed, lastAlert, cycles, credited, observed>>

\* GetVoteAccounts succeeds: mustEmitMetrics starts, up to its call of
\* getCachedEpochInfo.
VoteAccountsOk(p) ==
    /\ pc[p] = "GetVoteAccounts"
    /\ \E response \in snapshots :
          /\ accs' = [accs EXCEPT ![p] = response]
          /\ Answer(p, "GetVoteAccounts", [err |-> FALSE, result |-> response])
          /\ Emit(p,
                <<Metric("totalValidatorsDesc", Float(Len(response.Delinquent)), "delinquent"),
                  Metric("totalValidatorsDesc", Float(Len(response.Current)), "current")>>
                \o LastVoteMetrics(response.Current \o response.Delinquent))
    /\ caller' = [caller EXCEPT ![p] = "mustEmitMetrics"]
    /\ pc' = [pc EXCEPT ![p] = "lookup"]
    /\ UNCHANGED <<call, cacheVars, envVars, idx, ret, pending, fetched, loc, sends, logged,
                   recentQueries, epochsUsed, issued, lastAlert, cycles, credited, observed>>

\* monitor.GetVersion returns (its error is dropped), then monitor.GetSlotLeader.
VersionReturn(p) ==
    /\ pc[p] = "GetVersion"
    /\ \E version \in Returns({"1.14.17"}, "") :
          /\ Answer(p, "GetVersion", version)
          /\ Emit(p, IF version.result # ""
                     THEN <<Metric("solanaVersion", Float(1), version.result)>>
                     ELSE <<>>)
    /\ pc' = [pc EXCEPT ![p] = "GetSlotLeader"]
    /\ issued' = [issued EXCEPT ![p] = Append(@, "GetSlotLeader")]
    /\ UNCHANGED <<call, cacheVars, envVars, accs, idx, caller, ret, pending, fetched, loc, sends, logged,
                   recentQueries, epochsUsed, lastAlert, cycles, credited, observed>>

\* monitor.GetSlotLeader returns, then monitor.GetCurrentSlot.
SlotLeaderReturn(p) ==
    /\ pc[p] = "GetSlotLeader"
    /\ \E leader \in Returns({"ldr", ""}, "") :
          /\ Answer(p, "GetSlotLeader", leader)
          /\ Emit(p, IF leader.err THEN <<InvalidMetric("slotLeader")>>
                     ELSE IF leader.result # ""
                     THEN <<Metric("slotLeader", Float(1), leader.result)>>
                     ELSE <<>>)
    /\ pc' = [pc EXCEPT ![p] = "GetCurrentSlot"]
    /\ issued' = [issued EXCEPT ![p] = Append(@, "GetCurrentSlot")]
    /\ UNCHANGED <<call, cacheVars, envVars, accs, idx, caller, ret, pending, fetched, loc, sends, logged,
                   recentQueries, epochsUsed, lastAlert, cycles, credited, observed>>

\* monitor.GetCurrentSlot returns (its error is logged), then monitor.GetTxCount.
CurrentSlotReturn(p) ==
    /\ pc[p] = "GetCurrentSlot"
    /\ \E slot \in Returns({5}, 0) :
          /\ Answer(p, "GetCurrentSlot", slot)
          /\ Emit(p, IF slot.err THEN <<>>
                     ELSE <<Metric("currentSlot", Float(slot.result), ToString(slot.result))>>)
    /\ pc' = [pc EXCEPT ![p] = "GetTxCount"]
    /\ issued' = [issued EXCEPT ![p] = Append(@, "GetTxCount")]
    /\ UNCHANGED <<call, cacheVars, envVars, accs, idx, caller, ret, pending, fetched, loc, sends, logged,
                   recentQueries, epochsUsed, lastAlert, cycles, credited, observed>>

\* monitor.GetTxCount returns (its error is dropped) and Collect ends.
TxCountReturn(p) ==
    /\ pc[p] = "GetTxCount"
    /\ \E count \in Returns({1234}, 0) :
          /\ Answer(p, "GetTxCount", count)
          /\ Emit(p, <<Metric("txCount", Float(count.result), ToString(count.result))>>)
    /\ accs' = [accs EXCEPT ![p] = NoAccounts]
    /\ epochsUsed' = [epochsUsed EXCEPT ![p] = {}]
    /\ credited' = [credited EXCEPT ![p] = <<>>]
    /\ pc' = [pc EXCEPT ![p] = "idle"]
    /\ UNCHANGED <<call, cacheVars, envVars, idx, caller, ret, pending, fetched, loc, sends, logged,
                   recentQueries, issued, lastAlert, cycles, observed>>

(* ----------------------- calls without state -------------------------- *)

\* A call of fn with args that has not returned.
Call(fn, args) == [fn |-> fn, args |-> args, returned |-> FALSE, result |-> <<>>]

\* The call returns result.
Return(result) ==
    /\ ~call.returned
    /\ call' = [call EXCEPT !.returned = TRUE, !.result = result]
    /\ UNCHANGED <<cacheVars, envVars, procVars, histVars>>

\* The tuples of an epochCredits value: triples, among them two of one
\* epoch, a longer tuple and a tuple too short to hold credits.
CreditTuples == {<<100, 50, 40>>, <<101, 60, 50>>, <<101, 5, 6>>, <<100, 8, 9, 1>>, <<101, 7>>}

EpochCreditsValues == UNION {[1..n -> CreditTuples] : n \in 0..MaxCredits}

\* The loop of calcualteEpochVoteCredits over credits, for the epoch of the
\* epoch info it was given.
CreditsLoopCalls ==
    {Call("calcualteEpochVoteCredits", <<credits, epoch>>) :
        credits \in EpochCreditsValues, epoch \in {100, 101, 999}}

CreditsLoopReturn ==
    /\ call.fn = "calcualteEpochVoteCredits"
    /\ Return(EpochVoteCredits(call.args[1], call.args[2]))

\* The status check of mustEmitMetrics for the tracked validator, by its
\* EpochVoteAccount and ActivatedStake: the valVotingStatus metric and the
\* message of the status alert.
StatusCalls ==
    {Call("valVotingStatus", <<evAccount, stake>>) :
        evAccount \in BOOLEAN, stake \in {-1, 0, 1, 2000000000}}

StatusReturn ==
    /\ call.fn = "valVotingStatus"
    /\ LET vote == Account(PubKey, "vk", call.args[2], 7, call.args[1], <<>>)
           status == SelectSeq(TrackedMetrics(vote, NoLocals, NoAlert),
                               LAMBDA m : m.desc = "valVotingStatus")
       IN  Return(<<status, StatusMessage(vote)>>)

(* --------------------------- blockTimeDiff ---------------------------- *)

\* A number of seconds beyond 32 bits is a record: hi * 10^9 + lo seconds and
\* frac millionths of a second, negative when neg.

\* time.Unix(sec, 0) for a block time of hi * 10^9 + lo seconds.
Unix(sec) == [hi |-> sec[1], lo |-> sec[2]]

Before(t, u) == t.hi < u.hi \/ (t.hi = u.hi /\ t.lo < u.lo)

\* t - u in seconds, for u not after t.
Minus(t, u) ==
    IF t.lo >= u.lo THEN [hi |-> t.hi - u.hi, lo |-> t.lo - u.lo]
    ELSE [hi |-> t.hi - u.hi - 1, lo |-> t.lo + Second - u.lo]

\* The largest Duration, 1<<63 - 1 nanoseconds: 9223372036.854775807 s.
maxDuration == [neg |-> FALSE, hi |-> 9, lo |-> 223372036, ns |-> 854775807]

\* The smallest Duration, -1<<63 nanoseconds.
minDuration == [neg |-> TRUE, hi |-> 9, lo |-> 223372036, ns |-> 854775808]

\* t.Sub(u): the Duration t - u, or the largest (smallest) Duration when
\* t - u is beyond it.
Sub(t, u) ==
    LET neg == Before(t, u)
        d == IF neg THEN Minus(u, t) ELSE Minus(t, u)
    IN  IF Before(maxDuration, d) THEN (IF neg THEN minDuration ELSE maxDuration)
        ELSE [neg |-> neg, hi |-> d.hi, lo |-> d.lo, ns |-> 0]

\* d.Seconds(): float64(sec) + float64(nsec)/1e9.  A float64 of this size
\* resolves microseconds, not nanoseconds.
Seconds(d) == [neg |-> d.neg, hi |-> d.hi, lo |-> d.lo, frac |-> (d.ns + 500) \div 1000]

\* fmt.Sprintf("%.2f", diff): the text of diff rounded to hundredths, as
\* its sign, its whole seconds and its two decimals.
Sprintf2f(diff) ==
    LET cs == (diff.frac + 5000) \div 10000
        lo == IF cs = 100 THEN diff.lo + 1 ELSE diff.lo
    IN  <<IF diff.neg THEN "-" ELSE "",
          IF lo = Second THEN diff.hi + 1 ELSE diff.hi,
          IF lo = Second THEN 0 ELSE lo,
          cs % 100>>

\* strconv.ParseFloat(s, 64) of such a text.
ParseFloat(s) == [neg |-> s[1] = "-", hi |-> s[2], lo |-> s[3], frac |-> s[4] * 10000]

\* blockTimeDiff without the change of sign of a negative difference.
blockTimeDiff_Signed(bt, pvt) ==
    LET s == Sprintf2f(Seconds(Sub(Unix(bt), Unix(pvt))))
    IN  <<ParseFloat(s), s>>

\* blockTimeDiff(bt, pvt): (sec, s).
blockTimeDiff(bt, pvt) ==
    LET sub == Sub(Unix(bt), Unix(pvt))
        diff == Seconds(sub)
        abs == IF diff.neg THEN [diff EXCEPT !.neg = FALSE] ELSE diff
        s == Sprintf2f(abs)
    IN  <<ParseFloat(s), s>>

\* Block times: whole numbers of 10^9 seconds, and seconds around the
\* largest Duration and around a carry.
BlockTimes == (0..MaxGiga) \X {0, 1, 223372036, 223372037, 999999999}

BlockTimeDiffCalls == {Call("blockTimeDiff", <<bt, pvt>>) : bt, pvt \in BlockTimes}

BlockTimeDiffReturn ==
    /\ call.fn = "blockTimeDiff"
    /\ Return(blockTimeDiff(call.args[1], call.args[2]))

(* --------------------------- the environment -------------------------- *)

\* Where a goroutine waits: for a scrape, for the answer of a network call,
\* or for the registry to receive from ch.
Blocking ==
    {"idle", "GetVoteAccounts", "GetEpochInfo", "emitTracked", "emitNetwork",
     "GetVersion", "GetSlotLeader", "GetCurrentSlot", "GetTxCount"}

\* Time passes.
Tick ==
    /\ now + Quantum <= MaxNow
    /\ \A p \in Procs : pc[p] \in Blocking
    /\ now' = now + Quantum
    /\ recentQueries' = SelectSeq(recentQueries, LAMBDA t : now + Quantum - t < TTL)
    /\ UNCHANGED <<call, cacheVars, chainEpoch, snapshots, alertTimings, alerterErrors, networkVote, procVars, epochsUsed, issued, lastAlert, cycles, credited, answer, observed>>

\* The chain enters its next epoch.
AdvanceEpoch ==
    /\ chainEpoch < MaxEpoch
    /\ chainEpoch' = chainEpoch + 1
    /\ UNCHANGED <<call, cacheVars, now, snapshots, alertTimings, alerterErrors, networkVote, procVars, histVars>>

(* --------------------------- specifications --------------------------- *)

Step(p) ==
    \/ StartCollect(p)
    \/ VoteAccountsFail(p)
    \/ VoteAccountsOk(p)
    \/ CacheHit(p)
    \/ CacheMiss(p)
    \/ EpochInfoFail(p)
    \/ EpochInfoOk(p)
    \/ StoreInfo(p)
    \/ StoreTime(p)
    \/ EpochLookedUp(p)
    \/ NilDereference(p)
    \/ CreditsComputed(p)
    \/ TrackedEmitted(p)
    \/ NetworkEmitted(p)
    \/ VersionReturn(p)
    \/ SlotLeaderReturn(p)
    \/ CurrentSlotReturn(p)
    \/ TxCountReturn(p)

\* Scrapes may overlap: the Collect goroutines interleave (their output is
\* not observed), with the tracked validator and another one voting.
Init ==
    InitWith({<<<<12, 0, "AM">>, <<12, 1, "AM">>>>},
             {[Current |-> <<Tracked, Other>>, Delinquent |-> <<>>]}, {7}, {NoErrors}, {},
             {NoCall})

Next == Tick \/ AdvanceEpoch \/ \E p \in Procs : Step(p)

Spec == Init /\ [][Next]_vars

\* One scrape at a time, its output observed, under every configuration of
\* the alert timings and every snapshot of the vote accounts.
InitSeq ==
    InitWith(AlertConfigs, VoteAccountsResults, NetworkVotes, {NoErrors}, {1}, {NoCall})

NextSeq == Tick \/ AdvanceEpoch \/ Step(1)

SpecSeq == InitSeq /\ [][NextSeq]_vars

\* One scrape at a time with alerter calls that may fail: the tracked
\* validator is in the current set or in the delinquent one.
InitAlert ==
    InitWith(AlertConfigs,
             {[Current |-> <<Tracked, Other>>, Delinquent |-> <<>>],
              [Current |-> <<Other>>, Delinquent |-> <<Tracked>>]},
             {7}, SendErrors, {1}, {NoCall})

SpecAlert == InitAlert /\ [][NextSeq]_vars

\* One scrape at a time in which every call of the goroutine returns and
\* the receiver of ch keeps receiving: the goroutine is never held up for
\* ever at a step it can take.
SpecLive == Init /\ [][NextSeq]_vars /\ WF_vars(Step(1))

\* The functions that read no state of the collector, each called once with
\* every argument of a bounded set.
Calls == CreditsLoopCalls \cup StatusCalls \cup BlockTimeDiffCalls

InitFn ==
    InitWith({<<<<12, 0, "AM">>, <<12, 1, "AM">>>>},
             {[Current |-> <<Tracked, Other>>, Delinquent |-> <<>>]}, {7}, {NoErrors}, {},
             Calls)

NextFn == CreditsLoopReturn \/ StatusReturn \/ BlockTimeDiffReturn

SpecFn == InitFn /\ [][NextFn]_vars

(* ------------------------------- claims ------------------------------- *)

\* C1: all getCachedEpochInfo calls of one 30-second window issue at most one
\* GetEpochInfo query between them, whatever the calls' outcomes and cycles.
C1_OneQueryPerWindow == Len(recentQueries) <= 1

\* C2: at most one GetEpochInfo query is in flight at any time (callers that
\* miss while one is in flight wait for it instead of querying themselves).
C2_SingleFlight == Cardinality({p \in Procs : pc[p] = "GetEpochInfo"}) <= 1

\* C3: the step by which getCachedEpochInfo returns after a failed query
\* returns the error with a nil value and changes neither cache field.
C3_FailureLeavesCache ==
    [][\A p \in Procs :
          (pc[p] = "GetEpochInfo" /\ pc'[p] = "returned" /\ ret'[p].err)
          => /\ ret'[p].val.nil
             /\ cachedEpochInfo' = cachedEpochInfo
             /\ cachedEpochTime' = cachedEpochTime]_vars

\* A failed call has returned while a cached value stays in place.
C3_Witness ==
    \E p \in Procs : pc[p] = "returned" /\ ret[p].err /\ ret[p].val.nil /\ ~cachedEpochInfo.nil

\* C4: every value getCachedEpochInfo returns comes from a query that
\* succeeded less than 30 seconds before the return.
C4_ReturnsFreshValue ==
    \A p \in Procs :
        (pc[p] = "returned" /\ ~ret[p].err) => now - ret[p].val.got < TTL

\* The cached value and the cached time are those of one fetch.
SameFetch ==
    IF cachedEpochInfo.nil THEN cachedEpochTime = ZeroTime
    ELSE cachedEpochTime = cachedEpochInfo.got /\ timeBy = cachedEpochInfo.by

\* C5: whenever a caller is about to read the cache, the cached value and the
\* cached time come from the same successful fetch.
C5_AtomicReplace == (\E p \in Procs : pc[p] = "lookup") => SameFetch

\* C6: all credit computations of one cycle use the same epoch.
C6_OneEpochPerCycle == \A p \in Procs : Cardinality(epochsUsed[p]) <= 1

\* The configured slot value is a time of day, and it is the minute cur.
IsSlot(value, cur) ==
    /\ ~ParseKitchen(value).err
    /\ FormatKitchen(ParseKitchen(value).h24, ParseKitchen(value).m) = cur

\* C7: an evaluation in a minute that is a configured slot, with the dedup
\* signal "false", makes exactly one alerter call per channel and records one
\* sent indicator; with the signal "true" it makes no alerter call.
C7_OneDispatchPerChannel ==
    \A p \in Procs :
        LET a == lastAlert[p] IN
        (/\ a.evaluated
         /\ \E i \in DOMAIN alertTimings : IsSlot(alertTimings[i], a.cur)
         /\ a.answers # <<>>)
        => /\ a.answers[1].s = "false" /\ ~a.answers[1].err
              => /\ a.sends = Dispatch(a.msg)
                 /\ Len(SelectSeq(a.emits, LAMBDA m : m.label = "true")) = 1
           /\ a.answers[1].s = "true" => a.sends = <<>>

\* The dedup query's answer is neither "true" nor "false".
Unknown(alreadySentAlert) == alreadySentAlert.err \/ alreadySentAlert.s \notin {"true", "false"}

\* C8: an evaluation whose dedup query fails or answers with another string
\* skips the tick: no alerter call, and no sent or already-sent indicator.
C8_UnknownSkipsTick ==
    \A p \in Procs :
        LET a == lastAlert[p] IN
        (a.evaluated /\ a.answers # <<>> /\ Unknown(a.answers[1]))
        => a.sends = <<>> /\ a.emits = <<>>

\* The gateway queries of Collect, in its order.
CollectQueries ==
    <<"GetVoteAccounts", "GetVersion", "GetSlotLeader", "GetCurrentSlot", "GetTxCount">>

Failed(p) == {q \in DOMAIN answer[p] : answer[p][q].answered /\ answer[p][q].err}

\* The version, slot-leader, current-slot and tx-count metrics, as the
\* answers to these four queries decide them.
TailMetrics(a) ==
    (IF a.GetVersion.answered /\ a.GetVersion.result # ""
     THEN <<Metric("solanaVersion", Float(1), a.GetVersion.result)>> ELSE <<>>)
    \o (IF ~a.GetSlotLeader.answered THEN <<>>
        ELSE IF a.GetSlotLeader.err THEN <<InvalidMetric("slotLeader")>>
        ELSE IF a.GetSlotLeader.result # ""
        THEN <<Metric("slotLeader", Float(1), a.GetSlotLeader.result)>> ELSE <<>>)
    \o (IF a.GetCurrentSlot.answered /\ ~a.GetCurrentSlot.err
        THEN <<Metric("currentSlot", Float(a.GetCurrentSlot.result),
                      ToString(a.GetCurrentSlot.result))>> ELSE <<>>)
    \o (IF a.GetTxCount.answered
        THEN <<Metric("txCount", Float(a.GetTxCount.result), ToString(a.GetTxCount.result))>>
        ELSE <<>>)

IsTailMetric(m) == m.desc \in {"solanaVersion", "slotLeader", "currentSlot", "txCount"}

\* C9: once one of Collect's five queries has failed, the cycle goes on: it
\* is waiting for a later query, every query before issued once, or it has
\* ended with all five issued.  The version, slot-leader, current-slot and
\* tx-count metrics of a cycle are decided by the answers to their own
\* queries, the same whether the vote accounts failed or not, and after a
\* vote-accounts failure they follow the five invalid metrics.
C9_FailureNeverAborts ==
    \A p \in observed :
        /\ Failed(p) # {}
           => \E n \in 2..6 :
                 /\ pc[p] = (CollectQueries \o <<"idle">>)[n]
                 /\ issued[p] = SubSeq(CollectQueries, 1, IF n = 6 THEN 5 ELSE n)
        /\ issued[p] # <<>> /\ pc[p] # "panic"
           => SelectSeq(out[p], IsTailMetric) = TailMetrics(answer[p])
        /\ "GetVoteAccounts" \in Failed(p)
           => out[p] = VoteAccountsUnavailable \o TailMetrics(answer[p])

\* A cycle has ended whose vote-accounts query and slot-leader query failed,
\* with all five queries issued and the tx-count metric emitted.
C9_Witness ==
    \E p \in observed :
        /\ pc[p] = "idle"
        /\ {"GetVoteAccounts", "GetSlotLeader"} \subseteq Failed(p)
        /\ issued[p] = CollectQueries
        /\ \E i \in DOMAIN out[p] : out[p][i].desc = "txCount"

\* The metrics each query of Collect feeds.
MetricsOf(query) ==
    CASE query = "GetVoteAccounts" ->
            {"totalValidatorsDesc", "validatorActivatedStake", "validatorLastVote",
             "validatorRootSlot", "validatorDelinquent"}
      [] query = "GetVersion" -> {"solanaVersion"}
      [] query = "GetSlotLeader" -> {"slotLeader"}
      [] query = "GetCurrentSlot" -> {"currentSlot"}
      [] query = "GetTxCount" -> {"txCount"}

\* C10: when one of Collect's five queries has failed, each metric it feeds
\* is emitted as an invalid metric and not as a value.
C10_FailureEmitsMarker ==
    \A p \in observed : \A query \in Failed(p) : \A desc \in MetricsOf(query) :
        /\ \E i \in DOMAIN out[p] : out[p][i].desc = desc /\ out[p][i].invalid
        /\ \A i \in DOMAIN out[p] : out[p][i].desc = desc => out[p][i].invalid

\* C11: no error of a gateway query crashes a collection cycle: no goroutine
\* ever dereferences a missing epoch-info value and panics.
C11_NeverCrashes == \A p \in Procs : pc[p] # "panic"

\* The accounts, by their place in the current set, whose current and
\* previous credits are both nonzero.
Qualifying(credits) == {i \in DOMAIN credits : credits[i][1] # 0 /\ credits[i][2] # 0}

\* The sum of the k-th credit of the accounts of S.
RECURSIVE SumOver(_, _, _)
SumOver(credits, S, k) ==
    IF S = {} THEN 0
    ELSE LET i == CHOOSE j \in S : TRUE
         IN  credits[i][k] + SumOver(credits, S \ {i}, k)

\* The cycle of goroutine p has emitted its network averages and not ended.
AveragesEmitted(p) ==
    /\ pc[p] \in {"GetVersion", "GetSlotLeader", "GetCurrentSlot", "GetTxCount"}
    /\ answer[p].GetVoteAccounts.answered /\ ~answer[p].GetVoteAccounts.err

\* C12: the network averages a cycle emits are computed from the credits of
\* every account of the current set and of no other account, and when some
\* account has both credits nonzero, the current (previous) average is the sum
\* of the current (previous) credits of exactly the accounts with both credits
\* nonzero, divided by their number.
C12_NetworkAverageIsMean ==
    \A p \in observed :
        AveragesEmitted(p) =>
            LET current == answer[p].GetVoteAccounts.result.Current
                q == Qualifying(credited[p])
                avg == SelectSeq(out[p], LAMBDA m : m.desc = "networkVoteCredits")
            IN  /\ Len(credited[p]) = Len(current)
                /\ \A i \in DOMAIN current :
                      \E e \in 1..MaxEpoch :
                          credited[p][i] = EpochVoteCredits(current[i].EpochCredits, e)
                /\ Len(avg) = 2 /\ avg[1].label = "current" /\ avg[2].label = "previous"
                /\ q # {} =>
                      \A k \in 1..2 :
                          avg[k].value = FloatDiv(SumOver(credited[p], q, k), Cardinality(q))

\* Averages have been emitted over a current set of which one account
\* qualifies and another, with a zero credit, does not.
C12_Witness ==
    \E p \in observed :
        /\ AveragesEmitted(p)
        /\ Qualifying(credited[p]) # {}
        /\ Qualifying(credited[p]) # DOMAIN credited[p]
        /\ \E i \in DOMAIN out[p] : out[p][i].desc = "networkVoteCredits"

\* C13: when no account of the current set has both credits nonzero, the
\* cycle reports "no data" for the network averages: what it emits for them
\* is an invalid metric, and no value (a NaN, an infinity or a number).
C13_NoDataForEmptyAverage ==
    \A p \in observed :
        (AveragesEmitted(p) /\ Qualifying(credited[p]) = {})
        => /\ \E i \in DOMAIN out[p] :
                 out[p][i].desc = "networkVoteCredits" /\ out[p][i].invalid
           /\ \A i \in DOMAIN out[p] :
                 out[p][i].desc = "networkVoteCredits" => out[p][i].invalid

\* The places in credits of the tuples of at least three elements that are
\* of the given epoch.
Matches(credits, epoch) ==
    {i \in DOMAIN credits : Len(credits[i]) >= 3 /\ credits[i][1] = epoch}

\* C14: the credit lookup returns the second and third element of the first
\* 3-tuple of the epoch (the first of them when the epoch occurs more than
\* once), and (0, 0) when there is none: (60, 50) for [[100,50,40],[101,60,50]]
\* and epoch 101, (0, 0) for epoch 999.
C14_FirstMatchWins ==
    (call.fn = "calcualteEpochVoteCredits" /\ call.returned) =>
        LET credits == call.args[1]
            epoch == call.args[2]
            M == Matches(credits, epoch)
            first == CHOOSE i \in M : \A j \in M : i <= j
        IN  /\ M = {} => call.result = <<0, 0>>
            /\ M # {} => call.result = <<credits[first][2], credits[first][3]>>
            /\ credits = <<<<100, 50, 40>>, <<101, 60, 50>>>>
               => /\ epoch = 101 => call.result = <<60, 50>>
                  /\ epoch = 999 => call.result = <<0, 0>>

\* The lookup has returned for credits that hold two tuples of the epoch
\* with different credits.
C14_Witness ==
    /\ call.fn = "calcualteEpochVoteCredits" /\ call.returned
    /\ \E i, j \in Matches(call.args[1], call.args[2]) :
          /\ i < j
          /\ call.args[1][i][2] # call.args[1][j][2]
          /\ call.result[1] = call.args[1][i][2]

\* C15: the tracked validator is classified not voting (status 0, message
\* NOT VOTING) exactly when EpochVoteAccount is false and ActivatedStake is at
\* most 0, and voting (status 1, message VOTING) in every other case.
C15_NotVotingIff ==
    (call.fn = "valVotingStatus" /\ call.returned) =>
        LET evAccount == call.args[1]
            stake == call.args[2]
            notVoting == <<<<Metric("valVotingStatus", Float(0), "Jailed")>>,
                           "Solana validator is NOT VOTING">>
            voting == <<<<Metric("valVotingStatus", Float(1), "Voting")>>,
                        "Solana validator is VOTING">>
        IN  /\ call.result \in {notVoting, voting}
            /\ call.result = notVoting <=> (~evAccount /\ stake <= 0)

\* The status check has classified as voting an account that is no epoch
\* vote account and has stake.
C15_Witness ==
    /\ call.fn = "valVotingStatus" /\ call.returned
    /\ ~call.args[1] /\ call.args[2] > 0
    /\ call.result[2] = "Solana validator is VOTING"

\* The accounts of the tracked validator in the current set of the snapshot
\* the cycle of goroutine p received.
TrackedInCurrent(p) ==
    SelectSeq(answer[p].GetVoteAccounts.result.Current, LAMBDA a : a.NodePubkey = PubKey)

\* C16: the vote-height differential a cycle emits is the tracked validator's
\* last vote as the network's endpoint reports it, minus its last vote in the
\* current set of the validator endpoint's snapshot.
C16_VoteHeightDifferential ==
    \A p \in observed : \A i \in DOMAIN out[p] :
        out[p][i].desc = "voteHeightDiff"
        => /\ TrackedInCurrent(p) # <<>>
           /\ out[p][i].value = Float(networkVote - TrackedInCurrent(p)[1].LastVote)

\* The vote-height, vote-credit and status metrics of the tracked validator.
TrackedValues == {"valVoteHeight", "voteHeightDiff", "voteCredits", "valVotingStatus"}

\* C17: when the snapshot a cycle received has no account of the tracked
\* validator in its current set, the cycle reports each of the validator's
\* vote-height, vote-credit and status metrics as an invalid metric, and none
\* of them as a value.
C17_MissingValidatorFlagged ==
    \A p \in observed :
        (AveragesEmitted(p) /\ TrackedInCurrent(p) = <<>>)
        => \A desc \in TrackedValues :
              /\ \E i \in DOMAIN out[p] : out[p][i].desc = desc /\ out[p][i].invalid
              /\ \A i \in DOMAIN out[p] : out[p][i].desc = desc => out[p][i].invalid

\* |bt - pvt| in seconds.
AbsDiff(bt, pvt) ==
    IF Before(Unix(bt), Unix(pvt)) THEN Minus(Unix(pvt), Unix(bt)) ELSE Minus(Unix(bt), Unix(pvt))

\* The number sec is the whole number of seconds d.
IsSeconds(sec, d) == ~sec.neg /\ sec.hi = d.hi /\ sec.lo = d.lo /\ sec.frac = 0

\* blockTimeDiff has returned: its number is not negative and is what its
\* text parses to, and the call with the arguments exchanged returns the same.
NonNegativeSymmetric ==
    /\ ~call.result[1].neg
    /\ call.result[1] = ParseFloat(call.result[2])
    /\ call.result = blockTimeDiff(call.args[2], call.args[1])

\* C18 as stated: for all pairs of block times blockTimeDiff is not
\* negative, symmetric, equal to its re-parsed text, and equal to |t1 - t2|.
C18_AbsoluteDifference ==
    (call.fn = "blockTimeDiff" /\ call.returned) =>
        /\ NonNegativeSymmetric
        /\ IsSeconds(call.result[1], AbsDiff(call.args[1], call.args[2]))

\* C18, amended: for all pairs of block times blockTimeDiff is not negative,
\* symmetric and equal to its re-parsed text; it equals |t1 - t2| for the
\* pairs at most 9223372036 seconds apart (the largest Duration), and is
\* 9223372036.85 for the pairs further apart.
C18_AbsoluteDifferenceWithinDuration ==
    (call.fn = "blockTimeDiff" /\ call.returned) =>
        LET d == AbsDiff(call.args[1], call.args[2])
        IN  /\ NonNegativeSymmetric
            /\ ~Before(maxDuration, d) => IsSeconds(call.result[1], d)
            /\ Before(maxDuration, d) => call.result[2] = <<"", 9, 223372036, 85>>

\* blockTimeDiff has returned for a first block time before the second, the
\* two less than the largest Duration apart and not in the same 10^9 seconds.
C18_Witness ==
    /\ call.fn = "blockTimeDiff" /\ call.returned
    /\ Before(Unix(call.args[1]), Unix(call.args[2]))
    /\ call.args[1][2] > call.args[2][2]
    /\ ~Before(maxDuration, AbsDiff(call.args[1], call.args[2]))
    /\ IsSeconds(call.result[1], AbsDiff(call.args[1], call.args[2]))

\* The activated-stake values the cycle of goroutine p has emitted.
StakeValues(p) ==
    SelectSeq(out[p], LAMBDA m : m.desc = "validatorActivatedStake" /\ ~m.invalid)

\* C19: every activated-stake value a cycle emits is the ActivatedStake of
\* an account of the tracked validator in the current set of its snapshot,
\* divided by 10^9, and a cycle past its loop over the current set has
\* emitted one such value per account of the tracked validator in that set
\* (none when there is no such account).
C19_StakeNormalized ==
    \A p \in observed :
        LET tracked == TrackedInCurrent(p) IN
        /\ \A i \in DOMAIN StakeValues(p) :
              /\ i <= Len(tracked)
              /\ StakeValues(p)[i].value.kind = "num"
              /\ StakeValues(p)[i].value.num = tracked[i].ActivatedStake
              /\ StakeValues(p)[i].value.den = 10^9
              /\ StakeValues(p)[i].label = tracked[i].VotePubkey
        /\ AveragesEmitted(p) => Len(StakeValues(p)) = Len(tracked)

\* A cycle has emitted the stake 2.0 for the tracked validator, whose
\* ActivatedStake is 2,000,000,000.
C19_Witness ==
    \E p \in observed :
        /\ AveragesEmitted(p)
        /\ Len(StakeValues(p)) = 1
        /\ TrackedInCurrent(p)[1].ActivatedStake = 2000000000
        /\ StakeValues(p)[1].value.num = 2 * StakeValues(p)[1].value.den

\* C20: one evaluation of AlertValidatorStatus makes at most one dedup query
\* and calls each of the three alerters at most once, also when the matching
\* time is configured more than once.
C20_OneDispatchPerTick ==
    \A p \in observed :
        LET a == lastAlert[p] IN
        a.evaluated =>
            /\ Len(a.answers) <= 1
            /\ \A channel \in {"telegram", "email", "slack"} :
                  Len(SelectSeq(a.sends, LAMBDA c : c.channel = channel)) <= 1

\* The minute cur is one of the configured alert slots.
Configured(cur) == \E i \in DOMAIN alertTimings : IsSlot(alertTimings[i], cur)

\* C21: an evaluation in a minute that is none of the configured slots makes
\* no dedup query, calls no alerter and emits no indicator; an evaluation in
\* a configured minute whose dedup query answers "true" emits the
\* already-sent indicator and calls no alerter.
C21_NoMatchNoAction ==
    \A p \in observed :
        LET a == lastAlert[p] IN
        a.evaluated =>
            /\ ~Configured(a.cur)
               => a.answers = <<>> /\ a.sends = <<>> /\ a.emits = <<>>
            /\ (/\ Configured(a.cur)
                /\ a.answers # <<>>
                /\ ~a.answers[1].err /\ a.answers[1].s = "true")
               => /\ a.sends = <<>>
                  /\ a.emits = <<Metric("statusAlertCount", Float(0), "false")>>

\* seq repeated n times.
RECURSIVE Times(_, _)
Times(seq, n) == IF n = 0 THEN <<>> ELSE seq \o Times(seq, n - 1)

\* The dispatches of an evaluation: its dedup queries answered "false".
Dispatched(a) == Len(SelectSeq(a.answers, LAMBDA r : r.s = "false"))

\* The sent indicators among the metrics ms.
SentIndicators(ms) ==
    SelectSeq(ms, LAMBDA m : m.desc = "statusAlertCount" /\ m.label = "true")

\* C22: in a step that logs the error of an alerter call, every dispatch of
\* the step still calls telegram, email and slack, in this order; a status
\* alert records one sent indicator per dispatch, and the cycle goes on with
\* the next account, the network metrics or the version query.
C22_SendErrorsOnlyLogged ==
    [][\A p \in observed :
          (logged'[p] # logged[p] /\ logged'[p] # <<>>) =>
              \/ /\ pc[p] = "emitTracked"
                 /\ LET a == lastAlert'[p]
                    IN  /\ a.sends = Times(Dispatch(a.msg), Dispatched(a))
                        /\ sends'[p] = sends[p] \o a.sends
                        /\ Len(SentIndicators(a.emits)) = Dispatched(a)
                        /\ SentIndicators(out'[p]) = SentIndicators(out[p]) \o SentIndicators(a.emits)
                 /\ pc'[p] \in {"lookup", "emitNetwork"}
              \/ /\ pc[p] = "emitNetwork"
                 /\ LET tracked == SelectSeq(accs[p].Delinquent,
                                             LAMBDA vote : vote.NodePubkey = PubKey)
                    IN  sends'[p] = sends[p] \o Times(Dispatch("DELINQUENT"), Len(tracked))
                 /\ pc'[p] = "GetVersion"
      ]_vars

\* A cycle has ended in which the telegram call of a status alert failed
\* and the email and slack calls and the sent indicator followed it.
C22_Witness ==
    /\ pc[1] = "idle"
    /\ logged[1] # <<>> /\ logged[1][1] = "telegram"
    /\ lastAlert[1].logs = logged[1]
    /\ lastAlert[1].sends = Dispatch(lastAlert[1].msg)
    /\ SentIndicators(out[1]) = <<Metric("statusAlertCount", Float(0), "true")>>
    /\ issued[1] = CollectQueries

\* The evaluation of the alert loop from a counter of zero and no other
\* state, at minute cur with the message msg and the dedup answers asked.
FreshEvaluation(cur, msg, asked) ==
    LET answers == [k \in 1..Len(alertTimings) |->
                       IF k <= Len(asked) THEN asked[k] ELSE [err |-> FALSE, s |-> "true"]]
        outcomes == [k \in 1..Len(alertTimings) |-> NoErrors]
    IN  AlertLoop(AlertsArray(alertTimings), 1, cur, msg, answers, outcomes,
                  [count |-> 0, answers |-> <<>>, sends |-> <<>>, logs |-> <<>>,
                   emits |-> <<>>])

OfTracked(accounts) == SelectSeq(accounts, LAMBDA vote : vote.NodePubkey = PubKey)

\* The alerter calls of the delinquency alert among calls.
DelinquencySends(calls) == SelectSeq(calls, LAMBDA c : c.msg = "DELINQUENT")

\* C24: every cycle that has stopped, whose vote-accounts query succeeded
\* with the tracked validator in the delinquent set, has called telegram,
\* email and slack once each with the delinquency alert, at whatever minute
\* and with no dedup query when the validator is not in the current set.
C24_DelinquencyBypassesDedup ==
    \A p \in observed :
        LET r == answer[p].GetVoteAccounts
        IN  (/\ pc[p] \in {"idle", "panic"}
             /\ r.answered /\ ~r.err
             /\ Len(OfTracked(r.result.Delinquent)) = 1)
            => /\ DelinquencySends(sends[p]) = Dispatch("DELINQUENT")
               /\ OfTracked(r.result.Current) = <<>> => lastAlert[p].answers = <<>>

\* C25: an evaluation treats its minute as an alert tick (queries the dedup
\* signal) only if a configured slot is a time of day and is that minute; a
\* slot that is no time of day matches at no minute.
C25_OnlyValidSlotsMatch ==
    \A p \in observed :
        LET a == lastAlert[p]
        IN  (a.evaluated /\ a.answers # <<>>) =>
                \E i \in DOMAIN alertTimings :
                    /\ ~ParseKitchen(alertTimings[i]).err
                    /\ AlertsArray(alertTimings)[i] = a.cur

\* C26: every Collect cycle that has issued its vote-accounts query ends,
\* having issued the vote-accounts, version, slot-leader, current-slot and
\* tx-count queries once each in this order.
C26_CollectTerminates ==
    (pc[1] = "GetVoteAccounts") ~> (pc[1] = "idle" /\ issued[1] = CollectQueries)

====
